---- MODULE Spec2Model ----
(***************************************************************************)
(* Model of downloadmanager.py: one Download (the transfer engine) with    *)
(* the threads it starts, the destination file, the HTTP server it talks   *)
(* to, and the DownloadManager (the controller) that drives it through its *)
(* four buttons.                                                           *)
(*                                                                         *)
(* Every shared-field access of Download._run is a step of its own, so     *)
(* that the controller and other threads of the same Download interleave   *)
(* with it exactly where the interpreter may switch threads.               *)
(*                                                                         *)
(* Sizes are counted in bytes.  File offsets are 0-based in the source; a  *)
(* sequence here is 1-based, so file[i] is the byte at offset i - 1.       *)
(***************************************************************************)
EXTENDS Integers, Sequences, FiniteSets, Bags, TLC

\* Download.MAX_CHUNK_SIZE.  The source sets 1024; the model keeps the unit
\* (bytes) and scales the value down so that byte-exact file contents stay
\* enumerable.  Every definition below is parametric in it.
MAX_CHUNK_SIZE == 2

\* Largest resource the server holds, in bytes.
MaxSize == 4

\* Largest number of threads of the Download alive at once: resume() is
\* not called while that many are.
MaxTasks == 2

VARIABLES
    resource,    \* length in bytes of the resource behind _url (environment)
    status,      \* Download._status
    size,        \* Download._size
    downloaded,  \* Download._downloaded
    file,        \* contents of the destination file on disk
    tasks,       \* the live threads of _download: a bag of their locals
    selected,    \* DownloadManager._selected_download is this Download
    registered,  \* this Download is in DownloadManager._downloads
    buttons,     \* the buttons of the controller that are enabled
    polling,     \* the after(100, _update_downloads) callback is scheduled
    stopped,     \* history: the last engine call was pause() or cancel()
    extra,       \* history: bytes passed to file.write since that call
    called,      \* history: pause(), resume() or cancel() has been called
    writes       \* history: the lengths of the chunks written before that

vars == <<resource, status, size, downloaded, file, tasks,
          selected, registered, buttons, polling, stopped, extra,
          called, writes>>

engine == <<status, size, downloaded>>
controller == <<selected, registered, buttons, polling>>
history == <<stopped, extra, called, writes>>

----------------------------------------------------------------------------
\* Download.Status

DOWNLOADING == "Downloading"
PAUSED == "Paused"
COMPLETE == "Complete"
CANCELLED == "Cancelled"
ERROR == "Error"

Status == {DOWNLOADING, PAUSED, COMPLETE, CANCELLED, ERROR}

----------------------------------------------------------------------------
\* The environment: the HTTP server and the file system.

\* The byte of the resource at offset i - 1.  All bytes differ and none is
\* 0, the byte a write past the end of a file fills the gap with.
Byte(i) == i

\* The first n bytes of the resource.
Prefix(n) == [i \in 1..n |-> Byte(i)]

\* The server answers a GET with "Range: bytes=<start>-" with the rest of
\* the resource from that offset; an offset at or past the end (or a
\* malformed one) is answered 416, which urlopen raises.  An empty resource
\* asked from offset 0 may be answered with an empty body.
Satisfiable(start) ==
    \/ 0 <= start /\ start < resource
    \/ start = 0 /\ resource = 0

\* response.read(amt) on a stream positioned at resource offset pos: amt
\* bytes, or what is left when that is less; a negative amt reads all that
\* is left.
Min(a, b) == IF a < b THEN a ELSE b
Max(a, b) == IF a > b THEN a ELSE b

ReadLen(pos, amt) ==
    LET left == Max(resource - pos, 0)
    IN  IF amt < 0 THEN left ELSE Min(amt, left)

Read(pos, amt) == [k \in 1..ReadLen(pos, amt) |-> Byte(pos + k)]

\* file.write(chunk) through a handle whose cursor is at offset cursor: the
\* bytes replace what is there and extend the file; a gap between the old
\* end of the file and the cursor reads as zeros.  The writer's buffer is
\* taken as written through at once, the earliest the bytes can reach the
\* disk.
WriteAt(f, cursor, chunk) ==
    [i \in 1..Max(Len(f), cursor + Len(chunk)) |->
        IF cursor < i /\ i <= cursor + Len(chunk) THEN chunk[i - cursor]
        ELSE IF i <= Len(f) THEN f[i]
        ELSE 0]

\* open(filename, 'wb'): the file is created, or truncated to length 0.
OpenWB(f) == << >>

----------------------------------------------------------------------------
\* Download

\* The locals of one thread running _run; seen is the status its last loop
\* test read.
NewTask ==
    [pc |-> "request", rangeStart |-> 0, pos |-> 0, content_length |-> 0,
     cursor |-> 0, chunk_size |-> 0, chunk |-> << >>, loaded |-> 0,
     seen |-> DOWNLOADING]

\* A thread is alive from Thread.start() until _run returns.  Threads have
\* no identity in the source (the Thread object is dropped), so the live
\* ones are the bag of their locals.
AliveTasks == BagToSet(tasks)

NumAlive == BagCardinality(tasks)

\* The thread with locals t goes on with locals u.
Step(t, u) == tasks' = (tasks (-) SetToBag({t})) (+) SetToBag({u})

\* The thread with locals t returns from _run.
Return(t) == tasks' = tasks (-) SetToBag({t})

\* Download.progress: int(self._downloaded / self.size * 100).  The division
\* raises ZeroDivisionError when size is 0; int() truncates towards zero.
\* (The float product can fall one below the exact quotient computed here.)
ProgressRaises(d, s) == s = 0

Progress(d, s) ==
    LET q == (IF d < 0 THEN -d ELSE d) * 100
        r == IF s < 0 THEN -s ELSE s
    IN  IF (d < 0) = (s < 0) THEN q \div r ELSE -(q \div r)

Init ==
    /\ resource \in 0..MaxSize
    /\ status = DOWNLOADING
    /\ size = -1
    /\ downloaded = 0
    /\ file = << >>
    /\ tasks = SetToBag({NewTask})
    /\ selected = FALSE
    /\ registered = TRUE
    /\ buttons = {}
    /\ polling = TRUE
    /\ stopped = FALSE
    /\ extra = 0
    /\ called = FALSE
    /\ writes = << >>

\* _run, line 57-58: the request carries the current _downloaded as its
\* Range offset and the server answers it.
Request(t) ==
    /\ t.pc = "request"
    /\ Satisfiable(downloaded)
    /\ Step(t, [t EXCEPT !.pc = "header",
                         !.rangeStart = downloaded,
                         !.pos = downloaded,
                         !.content_length = resource - downloaded])
    /\ UNCHANGED <<resource, engine, file, controller, history>>

\* Mutant of Header: _size is set from every response, known or not.
HeaderAlwaysSets(t) ==
    /\ t.pc = "header"
    /\ Step(t, [t EXCEPT !.pc = "setsize"])
    /\ UNCHANGED <<resource, engine, file, controller, history>>

\* Mutant of Header: _size is never set.
HeaderNeverSets(t) ==
    /\ t.pc = "header"
    /\ Step(t, [t EXCEPT !.pc = "open"])
    /\ UNCHANGED <<resource, engine, file, controller, history>>

\* _run, line 59 and 61: the header is parsed and _size is tested.
Header(t) ==
    /\ t.pc = "header"
    /\ Step(t, [t EXCEPT !.pc = IF size = -1 THEN "setsize" ELSE "open"])
    /\ UNCHANGED <<resource, engine, file, controller, history>>

\* _run, line 62.
SetSize(t) ==
    /\ t.pc = "setsize"
    /\ size' = t.content_length
    /\ Step(t, [t EXCEPT !.pc = "open"])
    /\ UNCHANGED <<resource, status, downloaded, file, controller, history>>

\* _run, line 65.
Open(t) ==
    /\ t.pc = "open"
    /\ file' = OpenWB(file)
    /\ Step(t, [t EXCEPT !.pc = "seek"])
    /\ UNCHANGED <<resource, engine, controller, history>>

\* _run, line 66: the cursor of this thread's handle moves to the current
\* _downloaded.  seek raises on a negative offset.
Seek(t) ==
    /\ t.pc = "seek"
    /\ downloaded >= 0
    /\ Step(t, [t EXCEPT !.pc = "loop", !.cursor = downloaded])
    /\ UNCHANGED <<resource, engine, file, controller, history>>

\* Mutant of Loop: a thread that finds the status changed waits in the loop
\* test for Downloading to come back.
LoopWaits(t) ==
    /\ t.pc = "loop"
    /\ Step(t, [t EXCEPT !.pc = IF status = DOWNLOADING THEN "calc" ELSE "loop",
                         !.seen = status])
    /\ UNCHANGED <<resource, engine, file, controller, history>>

\* _run, line 67: the loop test.
Loop(t) ==
    /\ t.pc = "loop"
    /\ Step(t, [t EXCEPT !.pc = IF status = DOWNLOADING THEN "calc" ELSE "final",
                         !.seen = status])
    /\ UNCHANGED <<resource, engine, file, controller, history>>

\* Mutant of ChunkSize: the clamp to what is left of the resource is lost.
ChunkSizeNoClamp(s, d) == MAX_CHUNK_SIZE

\* _run, line 68-70.
ChunkSize(s, d) == IF s - d > MAX_CHUNK_SIZE THEN MAX_CHUNK_SIZE ELSE s - d

Calc(t) ==
    /\ t.pc = "calc"
    /\ Step(t, [t EXCEPT !.pc = "read", !.chunk_size = ChunkSize(size, downloaded)])
    /\ UNCHANGED <<resource, engine, file, controller, history>>

\* _run, line 72-74: an empty chunk breaks out of the loop.
ReadChunk(t) ==
    /\ t.pc = "read"
    /\ LET chunk == Read(t.pos, t.chunk_size)
       IN  Step(t, [t EXCEPT !.pc = IF chunk = << >> THEN "final" ELSE "write",
                             !.pos = @ + Len(chunk),
                             !.chunk = chunk])
    /\ UNCHANGED <<resource, engine, file, controller, history>>

\* _run, line 75.  The history counts the bytes written after a pause() or
\* cancel(), and lists the chunks written before any call.
Write(t) ==
    /\ t.pc = "write"
    /\ file' = WriteAt(file, t.cursor, t.chunk)
    /\ Step(t, [t EXCEPT !.pc = "incload", !.cursor = @ + Len(t.chunk)])
    /\ extra' = IF stopped THEN extra + Len(t.chunk) ELSE extra
    /\ writes' = IF called THEN writes ELSE Append(writes, Len(t.chunk))
    /\ UNCHANGED <<resource, engine, controller, stopped, called>>

\* _run, line 77: "self._downloaded += chunk_size" loads the field, adds
\* and stores it back; the interpreter may switch threads in between.
IncLoad(t) ==
    /\ t.pc = "incload"
    /\ Step(t, [t EXCEPT !.pc = "incstore", !.loaded = downloaded])
    /\ UNCHANGED <<resource, engine, file, controller, history>>

IncStore(t) ==
    /\ t.pc = "incstore"
    /\ downloaded' = t.loaded + t.chunk_size
    /\ Step(t, [t EXCEPT !.pc = "loop", !.chunk = << >>, !.loaded = 0])
    /\ UNCHANGED <<resource, status, size, file, controller, history>>

\* _run, line 79: the with blocks have closed the file and the response,
\* and _status is tested.
Final(t) ==
    /\ t.pc = "final"
    /\ IF status = DOWNLOADING
       THEN Step(t, [NewTask EXCEPT !.pc = "complete", !.seen = t.seen])
       ELSE Return(t)
    /\ UNCHANGED <<resource, engine, file, controller, history>>

\* _run, line 80.
SetComplete(t) ==
    /\ t.pc = "complete"
    /\ status' = COMPLETE
    /\ Return(t)
    /\ UNCHANGED <<resource, size, downloaded, file, controller, history>>

\* The steps of _run that call out of the process and may raise: urlopen,
\* the header's int(), open, seek, response.read, file.write.
Raising == {"request", "header", "open", "seek", "read", "write"}

\* _error
Error == ERROR

\* _run, line 81-82: whatever is raised inside the try block ends the
\* thread through _error().
Fault(t) ==
    /\ t.pc \in Raising
    /\ status' = Error
    /\ Return(t)
    /\ UNCHANGED <<resource, size, downloaded, file, controller, history>>

\* Mutant of Download: two threads are started.
DownloadTwice == tasks (+) SetToBag({NewTask}) (+) SetToBag({NewTask})

\* _download: a new thread running _run is started.
Download == tasks (+) SetToBag({NewTask})

\* pause, resume, cancel: the status each sets.
pause == PAUSED
resume == DOWNLOADING
cancel == CANCELLED

----------------------------------------------------------------------------
\* DownloadManager

\* Mutant of UpdateDownloadButtons: Clear is enabled for a paused Download
\* as well.
UpdateDownloadButtonsClearPaused(sel, st) ==
    IF sel
    THEN CASE st = DOWNLOADING -> {"pause", "cancel"}
           [] st = PAUSED -> {"resume", "cancel", "clear"}
           [] st = ERROR -> {"resume", "clear"}
           [] OTHER -> {"clear"}
    ELSE {}

\* _update_download_buttons: the buttons enabled for a selection and the
\* status read from it.
UpdateDownloadButtons(sel, st) ==
    IF sel
    THEN CASE st = DOWNLOADING -> {"pause", "cancel"}
           [] st = PAUSED -> {"resume", "cancel"}
           [] st = ERROR -> {"resume", "clear"}
           [] OTHER -> {"clear"}
    ELSE {}

\* _selected_download_changed: the user selects the row of the Download.
SelectedDownloadChanged ==
    /\ registered
    /\ ~selected
    /\ selected' = TRUE
    /\ buttons' = UpdateDownloadButtons(TRUE, status)
    /\ UNCHANGED <<resource, engine, file, tasks, registered, polling, history>>

\* _update_downloads: the row is refreshed, which reads progress; an
\* exception leaves the callback before it re-arms the timer.
UpdateDownloads ==
    /\ polling
    /\ IF registered /\ ProgressRaises(downloaded, size)
       THEN polling' = FALSE /\ UNCHANGED buttons
       ELSE /\ UNCHANGED polling
            /\ buttons' = IF registered /\ selected
                          THEN UpdateDownloadButtons(TRUE, status)
                          ELSE buttons
    /\ UNCHANGED <<resource, engine, file, tasks, selected, registered, history>>

\* _pause_download: pause() and the refresh of the buttons.
PauseDownload ==
    /\ "pause" \in buttons
    /\ status' = pause
    /\ buttons' = UpdateDownloadButtons(selected, status')
    /\ stopped' = TRUE
    /\ extra' = 0
    /\ called' = TRUE
    /\ writes' = << >>
    /\ UNCHANGED <<resource, size, downloaded, file, tasks, selected, registered, polling>>

\* _resume_download: resume(), which starts a thread, and the refresh.
ResumeDownload ==
    /\ "resume" \in buttons
    /\ NumAlive < MaxTasks
    /\ status' = resume
    /\ tasks' = Download
    /\ buttons' = UpdateDownloadButtons(selected, status')
    /\ stopped' = FALSE
    /\ extra' = 0
    /\ called' = TRUE
    /\ writes' = << >>
    /\ UNCHANGED <<resource, size, downloaded, file, selected, registered, polling>>

\* _cancel_download: cancel() and the refresh.
CancelDownload ==
    /\ "cancel" \in buttons
    /\ status' = cancel
    /\ buttons' = UpdateDownloadButtons(selected, status')
    /\ stopped' = TRUE
    /\ extra' = 0
    /\ called' = TRUE
    /\ writes' = << >>
    /\ UNCHANGED <<resource, size, downloaded, file, tasks, selected, registered, polling>>

\* _clear_download: the Download leaves the registry and the selection.
ClearDownload ==
    /\ "clear" \in buttons
    /\ registered' = FALSE
    /\ selected' = FALSE
    /\ buttons' = UpdateDownloadButtons(FALSE, status)
    /\ UNCHANGED <<resource, engine, file, tasks, polling, history>>

----------------------------------------------------------------------------

Next ==
    \/ \E t \in AliveTasks : Request(t)
    \/ \E t \in AliveTasks : Header(t)
    \/ \E t \in AliveTasks : SetSize(t)
    \/ \E t \in AliveTasks : Open(t)
    \/ \E t \in AliveTasks : Seek(t)
    \/ \E t \in AliveTasks : Loop(t)
    \/ \E t \in AliveTasks : Calc(t)
    \/ \E t \in AliveTasks : ReadChunk(t)
    \/ \E t \in AliveTasks : Write(t)
    \/ \E t \in AliveTasks : IncLoad(t)
    \/ \E t \in AliveTasks : IncStore(t)
    \/ \E t \in AliveTasks : Final(t)
    \/ \E t \in AliveTasks : SetComplete(t)
    \/ \E t \in AliveTasks : Fault(t)
    \/ SelectedDownloadChanged
    \/ UpdateDownloads
    \/ PauseDownload
    \/ ResumeDownload
    \/ CancelDownload
    \/ ClearDownload

Spec == Init /\ [][Next]_vars

\* One step of a thread running _run.
Run(t) ==
    \/ Request(t) \/ Header(t) \/ SetSize(t) \/ Open(t) \/ Seek(t)
    \/ Loop(t) \/ Calc(t) \/ ReadChunk(t) \/ Write(t)
    \/ IncLoad(t) \/ IncStore(t) \/ Final(t) \/ SetComplete(t) \/ Fault(t)

\* The interpreter keeps switching between the threads and every call out
\* of the process returns or raises: some live thread takes its next step.
FairSpec == Spec /\ WF_vars(\E t \in AliveTasks : Run(t))

\* The runs in which pause(), resume() and cancel() are never called: the
\* constructor's thread, and the controller selecting, polling and clearing.
QuietNext ==
    \/ \E t \in AliveTasks : Request(t)
    \/ \E t \in AliveTasks : Header(t)
    \/ \E t \in AliveTasks : SetSize(t)
    \/ \E t \in AliveTasks : Open(t)
    \/ \E t \in AliveTasks : Seek(t)
    \/ \E t \in AliveTasks : Loop(t)
    \/ \E t \in AliveTasks : Calc(t)
    \/ \E t \in AliveTasks : ReadChunk(t)
    \/ \E t \in AliveTasks : Write(t)
    \/ \E t \in AliveTasks : IncLoad(t)
    \/ \E t \in AliveTasks : IncStore(t)
    \/ \E t \in AliveTasks : Final(t)
    \/ \E t \in AliveTasks : SetComplete(t)
    \/ \E t \in AliveTasks : Fault(t)
    \/ SelectedDownloadChanged
    \/ UpdateDownloads
    \/ ClearDownload

QuietSpec == Init /\ [][QuietNext]_vars

TypeOK ==
    /\ status \in Status
    /\ size \in -1..MaxSize
    /\ downloaded \in Int
    /\ NumAlive \in 0..MaxTasks
    /\ buttons \subseteq {"pause", "resume", "cancel", "clear"}

----------------------------------------------------------------------------
\* Properties

\* The first n bytes of f are the first n bytes of the resource.
HoldsPrefix(f, n) ==
    /\ n <= Len(f)
    /\ \A i \in 1..n : f[i] = Byte(i)

\* C1: once _size is known, 0 <= _downloaded <= _size in every reachable
\* state.
C1_DownloadedWithinSize ==
    size # -1 => 0 <= downloaded /\ downloaded <= size

\* C2: no step of any thread or of the controller lowers _downloaded.
C2_DownloadedMonotone ==
    [][downloaded' >= downloaded]_vars

\* C3: at most one thread of the Download is alive at any time.
C3_OneTaskAlive ==
    NumAlive <= 1

\* C4: after pause() or cancel(), and until the next resume(), the threads
\* write at most MAX_CHUNK_SIZE bytes to the file in total.
C4_OneChunkAfterStop ==
    stopped => extra <= MAX_CHUNK_SIZE

\* C5: no step truncates or overwrites wrongly a byte of the file below
\* _downloaded that held the resource's byte; in particular not the open and
\* the writes of a resumed thread.
C5_ResumeKeepsPrefix ==
    [][\A i \in 1..Len(file) :
          i <= downloaded /\ file[i] = Byte(i)
              => i <= Len(file') /\ file'[i] = Byte(i)]_vars

\* C6: _downloaded is never ahead of the length of the file on disk.
C6_CounterNotAheadOfFile ==
    downloaded <= Len(file)

\* C7: whenever the status is Complete, _downloaded = _size.
C7_CompleteMeansAllBytes ==
    status = COMPLETE => downloaded = size

\* C8: the status changes only Downloading -> Paused, Cancelled, Complete or
\* Error, or Paused -> Downloading; Complete, Cancelled and Error are final.
Transitions ==
    {<<DOWNLOADING, PAUSED>>, <<DOWNLOADING, CANCELLED>>, <<DOWNLOADING, COMPLETE>>,
     <<DOWNLOADING, ERROR>>, <<PAUSED, DOWNLOADING>>}

C8_OnlyListedTransitions ==
    [][status' # status => <<status, status'>> \in Transitions]_vars

\* C9: a fault in a thread sets the status to Error, changes neither
\* _downloaded nor the file, and leaves the file holding the first
\* _downloaded bytes of the resource.
C9_FaultKeepsPrefix ==
    [][(\E t \in AliveTasks : Fault(t))
          => /\ status' = ERROR
             /\ downloaded' = downloaded
             /\ file' = file
             /\ HoldsPrefix(file', downloaded')]_vars

\* C10: once _size is known, reading progress does not raise and yields an
\* integer in 0..100.
C10_ProgressInRange ==
    size # -1 =>
        /\ ~ProgressRaises(downloaded, size)
        /\ Progress(downloaded, size) \in 0..100

\* C11: while _size is unknown (-1, or any value <= 0), reading progress
\* does not raise and yields a value that is no percentage in 0..100.
C11_UnknownIsSentinel ==
    size <= 0 =>
        /\ ~ProgressRaises(downloaded, size)
        /\ Progress(downloaded, size) \notin 0..100

\* C12: with no fault and no pause(), resume() or cancel(), the thread
\* writes ceil(S / MAX_CHUNK_SIZE) chunks for a resource of S bytes, the
\* k-th of min(S - bytes written so far, MAX_CHUNK_SIZE) bytes, and ends with
\* _downloaded = S and the status Complete.
Chunks(S) == (S + MAX_CHUNK_SIZE - 1) \div MAX_CHUNK_SIZE

C12_ChunkPlan ==
    /\ Len(writes) <= Chunks(resource)
    /\ \A k \in 1..Len(writes) :
          writes[k] = Min(resource - (k - 1) * MAX_CHUNK_SIZE, MAX_CHUNK_SIZE)
    /\ NumAlive = 0 /\ status # ERROR =>
          /\ Len(writes) = Chunks(resource)
          /\ downloaded = resource
          /\ status = COMPLETE

\* A transfer that ended with a last chunk shorter than MAX_CHUNK_SIZE.
C12_Witness ==
    /\ NumAlive = 0
    /\ status = COMPLETE
    /\ Len(writes) > 1
    /\ writes[Len(writes)] < MAX_CHUNK_SIZE

\* C13: once _size is set to a value other than -1, no step changes it.
C13_SizeWriteOnce ==
    [][size # -1 => size' = size]_vars

\* A resumed thread that asked for the rest of the resource from an offset
\* above 0, so that its content-length is not the total, is past line 61.
C13_Witness ==
    \E t \in AliveTasks :
        t.pc = "open" /\ t.rangeStart > 0 /\ t.content_length < size

\* C19: while _size is unknown, _downloaded is 0; so the value stored in
\* _size is the length of the whole resource.
C19_UnknownMeansNothingDownloaded ==
    /\ size = -1 => downloaded = 0
    /\ size \in {-1, resource}

\* A second thread was started by resume() while _size is still unknown.
C19_Witness ==
    size = -1 /\ called /\ NumAlive > 1

\* C14: at the moment the controller calls it, pause() finds the status
\* Downloading, cancel() finds Downloading or Paused, and resume() finds
\* Paused or Error.
C14_CallsAreApplicable ==
    [][/\ PauseDownload => status = DOWNLOADING
       /\ CancelDownload => status \in {DOWNLOADING, PAUSED}
       /\ ResumeDownload => status \in {PAUSED, ERROR}]_vars

\* C15: the Download is cleared from the registry only when its status at
\* that moment is Complete, Cancelled or Error.
C15_ClearOnlyWhenOver ==
    [][ClearDownload => status \in {COMPLETE, CANCELLED, ERROR}]_vars

\* The Download was cleared while a thread of it was still alive.
C15_Witness ==
    ~registered /\ NumAlive > 0

\* C16: a thread whose loop test read a status other than Downloading never
\* sets the status to Complete afterwards.
C16_StoppedThreadLeavesStatus ==
    [][\A t \in AliveTasks : t.seen # DOWNLOADING => ~SetComplete(t)]_vars

\* C17: the cursor of a thread's file handle is at the resource offset its
\* response stream is at (a chunk read and not yet written apart), so that
\* the thread writes the byte of resource offset k at file offset k.
C17_CursorFollowsStream ==
    \A t \in AliveTasks :
        /\ t.pc \in {"loop", "calc", "read", "incload", "incstore"}
              => t.cursor = t.pos
        /\ t.pc = "write" => t.cursor + Len(t.chunk) = t.pos

\* C20: a call of pause() or cancel() leaves the size, the counter, the
\* file and the threads as they are; a call of resume() leaves the size, the
\* counter and the file as they are and starts exactly one thread.
C20_CallsTouchOnlyStatus ==
    [][/\ PauseDownload \/ CancelDownload
            => UNCHANGED <<resource, size, downloaded, file, tasks>>
       /\ ResumeDownload
            => /\ UNCHANGED <<resource, size, downloaded, file>>
               /\ tasks' = tasks (+) SetToBag({NewTask})]_vars

\* resume() was called while the thread it found was still alive, with
\* bytes already counted.
C20_Witness ==
    called /\ NumAlive = 2 /\ downloaded > 0 /\ size = resource

\* C18: after cancel(), unless resume() is called again, every thread of
\* the Download eventually returns, and with no thread alive the counter and
\* the file stay as they are.
C18_CancelQuiesces ==
    /\ (status = CANCELLED) ~> (NumAlive = 0 \/ status = DOWNLOADING)
    /\ [][NumAlive = 0 => UNCHANGED <<downloaded, file>>]_vars

\* The Download was cancelled part way and its threads have returned.
C18_Witness ==
    /\ status = CANCELLED /\ NumAlive = 0
    /\ 0 < downloaded /\ downloaded < resource

====
